---- MODULE Spec2Model ----
(***************************************************************************)
(* Model of the processing core of app.py: the technique dispatcher        *)
(* (apply_technique), the three signal processors (process_lsv,            *)
(* process_dpv, process_swv) and optimize_asv_parameters.                  *)
(*                                                                         *)
(* Representation.                                                         *)
(*  - A numpy array is a sequence of integers.                             *)
(*  - A dict is a function whose domain is a set of strings.               *)
(*  - Parameter values are written in thousandths: 0.05 is 50, 25 is       *)
(*    25000, -1.2 is -1200.                                                *)
(*  - A call's result is a record: kind ("returned" or "raised"), what was *)
(*    returned (ret: "signal", "paramset" or "None"), the value, the       *)
(*    exception, the functions the call invoked, in order, and the         *)
(*    contents of the caller's current array when the call ends.           *)
(*  - The output of the smoothing filter is a sequence of rationals; it is *)
(*    given by its numerators over the common denominator SG_SCALE, which  *)
(*    the result carries in the field scale.                               *)
(***************************************************************************)
EXTENDS Integers, Sequences, FiniteSets, TLC

VARIABLES potential, current, params, given, call, outcome, firstCall, firstOutcome, ncalls

vars == <<potential, current, params, given, call, outcome, firstCall, firstOutcome, ncalls>>

(* Bounds of the explored inputs. *)
MaxLen == 3
MaxVal == 1
MaxExtra == 1
MaxCalls == 3

(* savgol_filter(current, window_length=21, polyorder=2) *)
WINDOW_LENGTH == 21

---------------------------------------------------------------------------
(* dicts *)

EmptyDict == [k \in {} |-> 0]

Merge(a, b) ==
  [k \in (DOMAIN a) \cup (DOMAIN b) |-> IF k \in DOMAIN b THEN b[k] ELSE a[k]]

---------------------------------------------------------------------------
(* results of a call *)

Returned(ret, signal, scale, paramset, invoked, cur) ==
  [kind |-> "returned", ret |-> ret, signal |-> signal, scale |-> scale,
   paramset |-> paramset, error |-> "-", invoked |-> invoked, current |-> cur]

Raised(error, invoked, cur) ==
  [kind |-> "raised", ret |-> "-", signal |-> <<>>, scale |-> 1,
   paramset |-> EmptyDict, error |-> error, invoked |-> invoked, current |-> cur]

NoOutcome ==
  [kind |-> "-", ret |-> "-", signal |-> <<>>, scale |-> 1,
   paramset |-> EmptyDict, error |-> "-", invoked |-> <<>>, current |-> <<>>]

---------------------------------------------------------------------------
(* numpy *)

\* variant: both slices start at index 0
Stride2_ignoring_start(a, start) ==
  [i \in 1..((Len(a) + 1) \div 2) |-> a[2 * (i - 1) + 1]]

\* a[start::2], 0-based start, as a new sequence of the selected elements
Stride2(a, start) ==
  LET n == IF Len(a) > start THEN (Len(a) - start + 1) \div 2 ELSE 0
  IN  [i \in 1..n |-> a[start + 2 * (i - 1) + 1]]

\* variant: operands must have the same length, a length of 1 is not stretched
Broadcastable_strict(a, b) == Len(a) = Len(b)

\* can a - b be computed for one-dimensional a and b (numpy broadcasting)
Broadcastable(a, b) == Len(a) = Len(b) \/ Len(a) = 1 \/ Len(b) = 1

\* a - b for one-dimensional a and b that broadcast
np_subtract(a, b) ==
  LET n == IF Len(a) = Len(b) THEN Len(a)
           ELSE IF Len(a) = 1 THEN Len(b) ELSE Len(a)
  IN  [i \in 1..n |-> (IF Len(a) = n THEN a[i] ELSE a[1])
                      - (IF Len(b) = n THEN b[i] ELSE b[1])]

---------------------------------------------------------------------------
(* scipy.signal.savgol_filter(x, window_length, polyorder=2), default     *)
(* mode "interp": a least-squares parabola a0 + a1*t + a2*t^2 is fitted    *)
(* to each window of window_length samples (t = -halflen..halflen); the    *)
(* output sample is the parabola's value at the window's centre, and the   *)
(* first and last halflen samples are the values of the parabola fitted    *)
(* to the first and to the last window.                                    *)

halflen == WINDOW_LENGTH \div 2

RECURSIVE SumOver(_, _, _)
\* sum of f[i] for i in lo..hi
SumOver(f, lo, hi) == IF lo > hi THEN 0 ELSE f[lo] + SumOver(f, lo + 1, hi)

RECURSIVE GCD(_, _)
GCD(a, b) == IF b = 0 THEN a ELSE GCD(b, a % b)

Offsets == (0 - halflen)..halflen

\* the moments of the offsets: the normal equations of the fit
SG_S0 == WINDOW_LENGTH
SG_S2 == SumOver([t \in Offsets |-> t * t], 0 - halflen, halflen)
SG_S4 == SumOver([t \in Offsets |-> t * t * t * t], 0 - halflen, halflen)
SG_DELTA == SG_S0 * SG_S4 - SG_S2 * SG_S2

\* common denominator of a0, a1 and a2
SG_SCALE == (SG_DELTA \div GCD(SG_DELTA, SG_S2)) * SG_S2

\* sum of t^p * x[c + t] over the window centred at index c
Moment(x, c, p) ==
  SumOver([t \in Offsets |-> (IF p = 0 THEN 1 ELSE IF p = 1 THEN t ELSE t * t) * x[c + t]],
          0 - halflen, halflen)

\* SG_SCALE times the value at offset t of the parabola fitted around index c
FitAt(x, c, t) ==
  LET m0 == Moment(x, c, 0)
      m1 == Moment(x, c, 1)
      m2 == Moment(x, c, 2)
  IN  (SG_SCALE \div SG_DELTA) * (SG_S4 * m0 - SG_S2 * m2)
      + (SG_SCALE \div SG_S2) * m1 * t
      + (SG_SCALE \div SG_DELTA) * (SG_S0 * m2 - SG_S2 * m0) * t * t

\* variant: the window must be strictly shorter than x
SavgolAccepts_strict(x) == WINDOW_LENGTH < Len(x)

\* does savgol_filter accept x: "If mode is 'interp', window_length must be
\* less than or equal to the size of x"
SavgolAccepts(x) == WINDOW_LENGTH <= Len(x)

savgol_filter(x) ==
  LET n == Len(x)
  IN  [j \in 1..n |->
         IF j <= halflen THEN FitAt(x, halflen + 1, j - (halflen + 1))
         ELSE IF j > n - halflen THEN FitAt(x, n - halflen, j - (n - halflen))
         ELSE FitAt(x, j, 0)]

---------------------------------------------------------------------------
(* the signal processors *)

process_lsv(pot, cur, prm) ==
  IF "scan_rate" \notin DOMAIN prm THEN Raised("KeyError", <<>>, cur)
  ELSE IF ~SavgolAccepts(cur) THEN Raised("ValueError", <<>>, cur)
  ELSE Returned("signal", savgol_filter(cur), SG_SCALE, EmptyDict, <<>>, cur)

\* variant: forward_current -= backward_current, which writes the difference
\* through the view forward_current into the caller's array
process_dpv_inplace(pot, cur, prm) ==
  IF "amplitude" \notin DOMAIN prm \/ "step_potential" \notin DOMAIN prm
  THEN Raised("KeyError", <<>>, cur)
  ELSE LET forward_current == Stride2(cur, 0)
           backward_current == Stride2(cur, 1)
           difference_current == np_subtract(forward_current, backward_current)
       IN  IF ~(Len(forward_current) = Len(backward_current) \/ Len(backward_current) = 1)
           THEN Raised("ValueError", <<>>, cur)
           ELSE Returned("signal", difference_current, 1, EmptyDict, <<>>,
                         [i \in 1..Len(cur) |->
                            IF i % 2 = 1 THEN difference_current[(i + 1) \div 2] ELSE cur[i]])

process_dpv(pot, cur, prm) ==
  IF "amplitude" \notin DOMAIN prm \/ "step_potential" \notin DOMAIN prm
  THEN Raised("KeyError", <<>>, cur)
  ELSE LET forward_current == Stride2(cur, 0)
           backward_current == Stride2(cur, 1)
       IN  IF ~Broadcastable(forward_current, backward_current)
           THEN Raised("ValueError", <<>>, cur)
           ELSE Returned("signal", np_subtract(forward_current, backward_current), 1,
                         EmptyDict, <<>>, cur)

\* variant: backward minus forward
process_swv_reversed(pot, cur, prm) ==
  IF "frequency" \notin DOMAIN prm \/ "amplitude" \notin DOMAIN prm
  THEN Raised("KeyError", <<>>, cur)
  ELSE LET forward_current == Stride2(cur, 0)
           backward_current == Stride2(cur, 1)
       IN  IF ~Broadcastable(forward_current, backward_current)
           THEN Raised("ValueError", <<>>, cur)
           ELSE Returned("signal", np_subtract(backward_current, forward_current), 1,
                         EmptyDict, <<>>, cur)

process_swv(pot, cur, prm) ==
  IF "frequency" \notin DOMAIN prm \/ "amplitude" \notin DOMAIN prm
  THEN Raised("KeyError", <<>>, cur)
  ELSE LET forward_current == Stride2(cur, 0)
           backward_current == Stride2(cur, 1)
       IN  IF ~Broadcastable(forward_current, backward_current)
           THEN Raised("ValueError", <<>>, cur)
           ELSE Returned("signal", np_subtract(forward_current, backward_current), 1,
                         EmptyDict, <<>>, cur)

---------------------------------------------------------------------------
(* the dispatcher *)

\* the result r of a callee, as seen by the caller that invoked it as name
Via(name, r) == [r EXCEPT !.invoked = <<name>> \o r.invoked]

\* variant: the last branch is an else, any other technique is smoothed
apply_technique_else_lsv(pot, cur, technique, prm) ==
  IF technique = "DPV" THEN Via("process_dpv", process_dpv(pot, cur, prm))
  ELSE IF technique = "SWV" THEN Via("process_swv", process_swv(pot, cur, prm))
  ELSE Via("process_lsv", process_lsv(pot, cur, prm))

apply_technique(pot, cur, technique, prm) ==
  IF technique = "LSV" THEN Via("process_lsv", process_lsv(pot, cur, prm))
  ELSE IF technique = "DPV" THEN Via("process_dpv", process_dpv(pot, cur, prm))
  ELSE IF technique = "SWV" THEN Via("process_swv", process_swv(pot, cur, prm))
  ELSE Returned("None", <<>>, 1, EmptyDict, <<>>, cur)

---------------------------------------------------------------------------
(* the parameter optimizer *)

technique_params ==
  [LSV |-> [scan_rate |-> 50],
   DPV |-> [amplitude |-> 25, step_potential |-> 4],
   SWV |-> [frequency |-> 25000, amplitude |-> 25]]

deposition_params == [deposition_potential |-> 0 - 1200, deposition_time |-> 120000]

\* variant: the deposition settings are left out of the returned dict
optimize_asv_parameters_no_deposition(data, metal, technique) ==
  IF technique \notin DOMAIN technique_params
  THEN Raised("KeyError", <<>>, data.Current)
  ELSE LET processed_current ==
             Via("apply_technique",
                 apply_technique(data.Potential, data.Current, technique,
                                 technique_params[technique]))
       IN  IF processed_current.kind = "raised" THEN processed_current
           ELSE Returned("paramset", <<>>, 1, technique_params[technique],
                         processed_current.invoked, processed_current.current)

\* variant: the dispatcher call is wrapped in try/except and its error dropped
optimize_asv_parameters_swallowing(data, metal, technique) ==
  IF technique \notin DOMAIN technique_params
  THEN Raised("KeyError", <<>>, data.Current)
  ELSE LET processed_current ==
             Via("apply_technique",
                 apply_technique(data.Potential, data.Current, technique,
                                 technique_params[technique]))
       IN  Returned("paramset", <<>>, 1,
                    Merge(deposition_params, technique_params[technique]),
                    processed_current.invoked, processed_current.current)

\* variant: technique_params.get(technique, {}) in place of the subscript
optimize_asv_parameters_get(data, metal, technique) ==
  LET tp == IF technique \in DOMAIN technique_params
            THEN technique_params[technique] ELSE EmptyDict
      processed_current ==
        Via("apply_technique",
            apply_technique(data.Potential, data.Current, technique, tp))
  IN  IF processed_current.kind = "raised" THEN processed_current
      ELSE Returned("paramset", <<>>, 1, Merge(deposition_params, tp),
                    processed_current.invoked, processed_current.current)

optimize_asv_parameters(data, metal, technique) ==
  IF technique \notin DOMAIN technique_params
  THEN Raised("KeyError", <<>>, data.Current)
  ELSE LET processed_current ==
             Via("apply_technique",
                 apply_technique(data.Potential, data.Current, technique,
                                 technique_params[technique]))
       IN  IF processed_current.kind = "raised" THEN processed_current
           ELSE Returned("paramset", <<>>, 1,
                         Merge(deposition_params, technique_params[technique]),
                         processed_current.invoked, processed_current.current)

---------------------------------------------------------------------------
(* the inputs: the Sweep read from the uploaded file, and the parameter    *)
(* bundle the caller passes to apply_technique                             *)

Techniques == {"LSV", "DPV", "SWV", "CV"}
Metals == {"Pb", "Cd"}

Pattern(n, k) == [i \in 1..n |-> (k * i) % (MaxVal + 1)]

\* every sequence up to MaxLen over 0..MaxVal, and patterned sequences of
\* every length up to past the filter's window
Currents ==
  UNION {[1..n -> 0..MaxVal] : n \in 0..MaxLen}
  \cup {Pattern(n, k) : n \in 0..(WINDOW_LENGTH + MaxExtra), k \in 0..MaxVal}

Ramp(n) == [i \in 1..n |-> i - 1]

\* params as create_asv_app builds it for the selected technique, with the
\* sliders at their initial positions
SliderParams(technique) ==
  LET common_params == [deposition_potential |-> 0 - 1200, deposition_time |-> 120000]
      tp == IF technique = "LSV" THEN [scan_rate |-> 50]
            ELSE IF technique = "DPV" THEN [step_potential |-> 4, amplitude |-> 25]
            ELSE IF technique = "SWV" THEN [frequency |-> 25000, amplitude |-> 25]
            ELSE EmptyDict
  IN  Merge(common_params, tp)

ParamBundles ==
  {technique_params[t] : t \in DOMAIN technique_params}
  \cup {SliderParams(t) : t \in DOMAIN technique_params}
  \cup {EmptyDict}

NoCall == [op |-> "-", technique |-> "-", metal |-> "-"]

Init ==
  /\ current \in Currents
  /\ potential = Ramp(Len(current))
  /\ params \in ParamBundles
  /\ given = [potential |-> potential, current |-> current, params |-> params]
  /\ call = NoCall
  /\ outcome = NoOutcome
  /\ firstCall = NoCall
  /\ firstOutcome = NoOutcome
  /\ ncalls = 0

\* a call c ends with result r
Completes(c, r) ==
  /\ ncalls < MaxCalls
  /\ ncalls' = ncalls + 1
  /\ call' = c
  /\ outcome' = r
  /\ current' = r.current
  /\ firstCall' = IF firstCall = NoCall THEN c ELSE firstCall
  /\ firstOutcome' = IF firstCall = NoCall THEN r ELSE firstOutcome
  /\ UNCHANGED <<potential, params, given>>

ApplyTechnique ==
  \E t \in Techniques :
    Completes([op |-> "apply_technique", technique |-> t, metal |-> "-"],
              apply_technique(potential, current, t, params))

OptimizeAsvParameters ==
  \E t \in Techniques, m \in Metals :
    Completes([op |-> "optimize_asv_parameters", technique |-> t, metal |-> m],
              optimize_asv_parameters([Potential |-> potential, Current |-> current], m, t))

ProcessLsv ==
  Completes([op |-> "process_lsv", technique |-> "-", metal |-> "-"],
            process_lsv(potential, current, params))

ProcessDpv ==
  Completes([op |-> "process_dpv", technique |-> "-", metal |-> "-"],
            process_dpv(potential, current, params))

ProcessSwv ==
  Completes([op |-> "process_swv", technique |-> "-", metal |-> "-"],
            process_swv(potential, current, params))

Next ==
  \/ ApplyTechnique
  \/ OptimizeAsvParameters
  \/ ProcessLsv
  \/ ProcessDpv
  \/ ProcessSwv

Spec == Init /\ [][Next]_vars

TypeOK ==
  /\ outcome.kind \in {"-", "returned", "raised"}
  /\ call.op \in {"-", "apply_technique", "optimize_asv_parameters",
                  "process_lsv", "process_dpv", "process_swv"}

---------------------------------------------------------------------------
(* vocabulary of the properties *)

Known == {"LSV", "DPV", "SWV"}

\* the last call ran the named processor on the caller's arrays and params,
\* directly or through the dispatcher
Ran(name, technique) ==
  \/ call.op = name
  \/ call.op = "apply_technique" /\ call.technique = technique

RanDpv == Ran("process_dpv", "DPV") /\ {"amplitude", "step_potential"} \subseteq DOMAIN given.params
RanSwv == Ran("process_swv", "SWV") /\ {"frequency", "amplitude"} \subseteq DOMAIN given.params
RanLsv == Ran("process_lsv", "LSV") /\ "scan_rate" \in DOMAIN given.params

N == Len(given.current)

\* the outcome is the sequence of length n of the differences of the pairs
PairDifferences(n) ==
  /\ outcome.kind = "returned"
  /\ outcome.ret = "signal"
  /\ outcome.scale = 1
  /\ Len(outcome.signal) = n
  /\ \A i \in 1..n : outcome.signal[i] = given.current[2 * i - 1] - given.current[2 * i]

\* what a call produced, without the trace of the functions it invoked
Produced(r) ==
  [kind |-> r.kind, ret |-> r.ret, signal |-> r.signal, scale |-> r.scale,
   paramset |-> r.paramset, error |-> r.error]

\* C1: on a current sequence of even length N (0 included), process_dpv and
\* process_swv return, without error, the N/2 differences
\* current[2i] - current[2i+1].
C1_EvenLengthPairs ==
  (RanDpv \/ RanSwv) /\ N % 2 = 0 => PairDifferences(N \div 2)

C1_Witness ==
  /\ RanDpv
  /\ given.current = <<1, 0>>
  /\ outcome.signal = <<1>>

\* C2: on a current sequence of odd length N, process_dpv and process_swv
\* return, without error, the (N-1)/2 differences current[2i] - current[2i+1];
\* the last sample is dropped.
C2_OddLengthDropsLast ==
  (RanDpv \/ RanSwv) /\ N % 2 = 1 => PairDifferences((N - 1) \div 2)

\* C3, as claimed: for a known technique, any metal and any Sweep of length
\* >= 1, optimize_asv_parameters returns exactly the technique's defaults
\* merged with deposition_potential = -1.2 and deposition_time = 120.
ExactParameterSet(technique) ==
  /\ outcome.kind = "returned"
  /\ outcome.ret = "paramset"
  /\ outcome.paramset =
       IF technique = "LSV"
       THEN [scan_rate |-> 50, deposition_potential |-> 0 - 1200, deposition_time |-> 120000]
       ELSE IF technique = "DPV"
       THEN [amplitude |-> 25, step_potential |-> 4,
             deposition_potential |-> 0 - 1200, deposition_time |-> 120000]
       ELSE [frequency |-> 25000, amplitude |-> 25,
             deposition_potential |-> 0 - 1200, deposition_time |-> 120000]

OptimizedKnown ==
  call.op = "optimize_asv_parameters" /\ call.technique \in Known /\ N >= 1

C3_AlwaysReturnsDefaults ==
  OptimizedKnown => ExactParameterSet(call.technique)

\* C3, amended: for a known technique, any metal and any Sweep of length >= 1,
\* optimize_asv_parameters either raises the error of its dispatcher call and
\* returns nothing, or returns exactly the technique's defaults merged with the
\* two deposition settings; it returns for LSV on 21 samples or more and for
\* DPV and SWV on an even number of samples.
C3_ReturnsDefaultsOrRaises ==
  OptimizedKnown =>
    /\ \/ ExactParameterSet(call.technique)
       \/ outcome.kind = "raised" /\ outcome.error = "ValueError"
          /\ outcome.ret = "-" /\ outcome.paramset = EmptyDict
    /\ (call.technique = "LSV" /\ N >= WINDOW_LENGTH) => outcome.kind = "returned"
    /\ (call.technique \in {"DPV", "SWV"} /\ N % 2 = 0) => outcome.kind = "returned"

C3_Witness ==
  /\ OptimizedKnown
  /\ call.technique = "LSV"
  /\ call.metal = "Cd"
  /\ N = WINDOW_LENGTH
  /\ outcome.kind = "returned"
  /\ DOMAIN outcome.paramset = {"scan_rate", "deposition_potential", "deposition_time"}

\* C4: process_lsv fails with a processing error exactly when the current
\* sequence has fewer than 21 samples; on 21 samples or more it returns a
\* sequence as long as its input.
C4_LsvWindowPrecondition ==
  RanLsv =>
    /\ (outcome.kind = "raised") = (N < 21)
    /\ outcome.kind = "raised" => outcome.error = "ValueError"
    /\ N >= 21 => /\ outcome.kind = "returned"
                  /\ outcome.ret = "signal"
                  /\ Len(outcome.signal) = N

C4_Witness ==
  /\ RanLsv
  /\ N = 21
  /\ outcome.kind = "returned"
  /\ Len(outcome.signal) = 21
  /\ \E i \in 1..21 : outcome.signal[i] # 0

\* C5: apply_technique with a technique outside {LSV, DPV, SWV} raises
\* nothing, invokes no processor and returns None, whatever potential, current
\* and params are.
C5_UnknownTechniqueFallsThrough ==
  call.op = "apply_technique" /\ call.technique \notin Known =>
    /\ outcome.kind = "returned"
    /\ outcome.ret = "None"
    /\ outcome.signal = <<>>
    /\ outcome.invoked = <<>>

C5_Witness ==
  /\ call.op = "apply_technique"
  /\ call.technique = "CV"
  /\ given.params = EmptyDict
  /\ N = 2
  /\ outcome.ret = "None"

\* C6: whenever the dispatcher call that optimize_asv_parameters makes fails,
\* the optimizer fails with that same error and returns no ParameterSet; it
\* returns a ParameterSet only after the dispatcher call completed without
\* error.
C6_NoPartialResult ==
  call.op = "optimize_asv_parameters" /\ call.technique \in Known =>
    LET dispatched == apply_technique(given.potential, given.current, call.technique,
                                      technique_params[call.technique])
    IN  /\ dispatched.kind = "raised" =>
             /\ outcome.kind = "raised"
             /\ outcome.error = dispatched.error
             /\ outcome.ret = "-"
             /\ outcome.paramset = EmptyDict
        /\ outcome.kind = "returned" =>
             /\ dispatched.kind = "returned"
             /\ Len(outcome.invoked) >= 1
             /\ outcome.invoked[1] = "apply_technique"

C6_Witness ==
  /\ call.op = "optimize_asv_parameters"
  /\ call.technique = "LSV"
  /\ N = 20
  /\ outcome.kind = "raised"
  /\ outcome.error = "ValueError"
  /\ outcome.invoked = <<"apply_technique", "process_lsv">>

\* C7: on a current sequence of length 0 or 1, process_dpv and process_swv
\* return an empty sequence and raise nothing.
C7_ShortInputGivesEmpty ==
  (RanDpv \/ RanSwv) /\ N <= 1 =>
    /\ outcome.kind = "returned"
    /\ outcome.ret = "signal"
    /\ outcome.signal = <<>>

C7_Witness ==
  /\ RanSwv
  /\ given.current = <<1>>
  /\ outcome.kind = "returned"
  /\ outcome.signal = <<>>

\* C8: on any current sequence, apply_technique with DPV and valid DPV params
\* has the same outcome (same sequence, or failure in both) as apply_technique
\* with SWV and valid SWV params, and each has the outcome of the direct call
\* of process_dpv, process_swv with the same arguments.
ValidDpvParams == {p \in ParamBundles : {"amplitude", "step_potential"} \subseteq DOMAIN p}
ValidSwvParams == {p \in ParamBundles : {"frequency", "amplitude"} \subseteq DOMAIN p}

C8_DispatchRoutesAndDpvEqualsSwv ==
  /\ call.op = "apply_technique" /\ call.technique = "DPV" /\ given.params \in ValidDpvParams =>
       /\ Produced(outcome) = Produced(process_dpv(given.potential, given.current, given.params))
       /\ outcome.invoked = <<"process_dpv">>
       /\ \A ps \in ValidSwvParams :
            /\ Produced(outcome) =
                 Produced(apply_technique(given.potential, given.current, "SWV", ps))
            /\ Produced(outcome) = Produced(process_swv(given.potential, given.current, ps))
  /\ call.op = "apply_technique" /\ call.technique = "SWV" /\ given.params \in ValidSwvParams =>
       /\ Produced(outcome) = Produced(process_swv(given.potential, given.current, given.params))
       /\ outcome.invoked = <<"process_swv">>
       /\ \A pd \in ValidDpvParams :
            /\ Produced(outcome) =
                 Produced(apply_technique(given.potential, given.current, "DPV", pd))
            /\ Produced(outcome) = Produced(process_dpv(given.potential, given.current, pd))

C8_Witness ==
  /\ call.op = "apply_technique"
  /\ call.technique = "SWV"
  /\ given.params \in ValidSwvParams
  /\ given.current = <<1, 0, 0>>
  /\ outcome.signal = <<1, 0>>

\* C9: after any sequence of calls, successful or failing, the caller's
\* potential, current and params are what they were, and a call made again
\* with the arguments of the first call has the outcome of the first call.
C9_StatelessAndInputsUntouched ==
  /\ potential = given.potential
  /\ current = given.current
  /\ params = given.params
  /\ (call # NoCall /\ call = firstCall) => outcome = firstOutcome

C9_Witness ==
  /\ ncalls = 3
  /\ call = firstCall
  /\ call.op = "apply_technique"
  /\ call.technique = "DPV"
  /\ given.current = <<1, 0, 1>>
  /\ outcome.kind = "returned"
  /\ current = <<1, 0, 1>>

\* C10: optimize_asv_parameters with a technique outside {LSV, DPV, SWV} fails
\* with a lookup error on the defaults table before apply_technique is
\* invoked, and returns no ParameterSet.
C10_OptimizerRejectsUnknownTechnique ==
  call.op = "optimize_asv_parameters" /\ call.technique \notin Known =>
    /\ outcome.kind = "raised"
    /\ outcome.error = "KeyError"
    /\ outcome.invoked = <<>>
    /\ outcome.ret = "-"
    /\ outcome.paramset = EmptyDict

C10_Witness ==
  /\ call.op = "optimize_asv_parameters"
  /\ call.technique = "CV"
  /\ N = 4
  /\ outcome.error = "KeyError"
  /\ outcome.invoked = <<>>

====
